---- MODULE Spec2Model ----
(***************************************************************************)
(* Model of relayer-cli/src/commands/listen.rs: the `listen` command.      *)
(* The command parses its event filters, looks the chain up, sets up an    *)
(* event monitor, spawns it on a thread and then drains the monitor's      *)
(* channel of event batches, logging the events that pass the filters.     *)
(***************************************************************************)
EXTENDS Integers, Sequences, FiniteSets, TLC

(* ---- bounds ---- *)
MaxBatches == 2
MaxStreamEvents == 2
MaxHeight == 2
MaxFilters == 1

(* ---- EventFilter (listen.rs 20-54) ---- *)
NewBlock == "EventFilter::NewBlock"
Tx == "EventFilter::Tx"
EventFilter == {NewBlock, Tx}

\* The variants of ibc::events::IbcEvent the filters tell apart, and two of
\* the remaining ("everything else") variants.
IbcEvent == {"NewBlock", "ChainError", "SendPacket", "UpdateClient"}

\* The variants the modelled monitor puts on the channel.
StreamEvent == {"NewBlock", "ChainError", "SendPacket"}

\* NewBlock taking ChainError too, and Tx taking everything but ChainError
matches_NewBlockKeepsChainError(self, event) ==
    CASE self = NewBlock -> event \in {"NewBlock", "ChainError"}
      [] self = Tx -> ~(event \in {"NewBlock", "ChainError"})

matches_TxKeepsNewBlock(self, event) ==
    CASE self = NewBlock -> event = "NewBlock"
      [] self = Tx -> ~(event = "ChainError")

\* Tx forgets to exclude ChainError
matches_TxKeepsChainError(self, event) ==
    CASE self = NewBlock -> event = "NewBlock"
      [] self = Tx -> ~(event = "NewBlock")

matches(self, event) ==
    CASE self = NewBlock -> event = "NewBlock"
      [] self = Tx -> ~(event \in {"NewBlock", "ChainError"})

\* Display writing the Tx token in lower case
fmt_LowerCaseTx(self) ==
    CASE self = NewBlock -> "NewBlock"
      [] self = Tx -> "tx"

fmt(self) ==
    CASE self = NewBlock -> "NewBlock"
      [] self = Tx -> "Tx"

\* from_str accepting the tokens in any case
from_str_AnyCase(s) ==
    CASE s \in {"NewBlock", "newblock"} -> [ok |-> TRUE, val |-> NewBlock, err |-> ""]
      [] s \in {"Tx", "tx"} -> [ok |-> TRUE, val |-> Tx, err |-> ""]
      [] OTHER -> [ok |-> FALSE, val |-> "", err |-> s]

from_str(s) ==
    CASE s = "NewBlock" -> [ok |-> TRUE, val |-> NewBlock, err |-> ""]
      [] s = "Tx" -> [ok |-> TRUE, val |-> Tx, err |-> ""]
      [] OTHER -> [ok |-> FALSE, val |-> "", err |-> s]

\* only the first filter is asked
event_match_FirstOnly(event, filters) ==
    filters # <<>> /\ matches(filters[1], event)

event_match(event, filters) ==
    \E i \in DOMAIN filters : matches(filters[i], event)

(* ---- log records written by info! / error! ---- *)
Line(level, kind, height, text) ==
    [level |-> level, kind |-> kind, height |-> height, text |-> text]

ListeningLine == Line("info", "listening", 0, "")
HeightLine(h) == Line("info", "height", h, "")
EventLine(e) == Line("info", "event", 0, e)
BlankLine == Line("info", "blank", 0, "")
ErrorLine(e) == Line("error", "error", 0, e)

(* ---- batches delivered on the EventReceiver ---- *)
OkBatch(h, evs) == [ok |-> TRUE, height |-> h, events |-> evs, err |-> ""]
ErrBatch(e) == [ok |-> FALSE, height |-> 0, events |-> <<>>, err |-> e]

SeqsUpTo(S, n) == UNION {[1..k -> S] : k \in 0..n}

Heights == 1..MaxHeight
BatchErrors == {"delivery error"}
\* the batches carrying at most n events
Batches(n) ==
    {OkBatch(h, evs) : h \in Heights, evs \in SeqsUpTo(StreamEvent, n)}
      \cup {ErrBatch(e) : e \in BatchErrors}

\* the number of events in a sequence of batches
RECURSIVE EventCount(_)
EventCount(bs) ==
    IF bs = <<>> THEN 0 ELSE Len(Head(bs).events) + EventCount(Tail(bs))

\* the matching events collected in reverse
RECURSIVE matching_events_Reversed(_, _)
matching_events_Reversed(events, filters) ==
    IF events = <<>> THEN <<>>
    ELSE matching_events_Reversed(Tail(events), filters)
           \o (IF event_match(Head(events), filters) THEN <<Head(events)>> ELSE <<>>)

\* batch.events.into_iter().filter(|e| event_match(e, filters)).collect_vec()
RECURSIVE matching_events(_, _)
matching_events(events, filters) ==
    IF events = <<>> THEN <<>>
    ELSE (IF event_match(Head(events), filters) THEN <<Head(events)>> ELSE <<>>)
           \o matching_events(Tail(events), filters)

\* for event in matching_events { info!("+ {:#?}", event) }
RECURSIVE event_lines(_)
event_lines(evs) ==
    IF evs = <<>> THEN <<>>
    ELSE <<EventLine(Head(evs))>> \o event_lines(Tail(evs))

\* the body without the closing info!("")
loop_body_NoSeparator(event_batch, filters) ==
    IF event_batch.ok
    THEN LET m == matching_events(event_batch.events, filters)
         IN IF m = <<>> THEN <<>>
            ELSE <<HeightLine(event_batch.height)>> \o event_lines(m)
    ELSE <<ErrorLine(event_batch.err)>>

\* the body without the is_empty() check
loop_body_NoSkip(event_batch, filters) ==
    IF event_batch.ok
    THEN <<HeightLine(event_batch.height)>>
           \o event_lines(matching_events(event_batch.events, filters))
           \o <<BlankLine>>
    ELSE <<ErrorLine(event_batch.err)>>

\* The body of the while-let loop: the log lines one received batch yields.
loop_body(event_batch, filters) ==
    IF event_batch.ok
    THEN LET m == matching_events(event_batch.events, filters)
         IN IF m = <<>> THEN <<>>
            ELSE <<HeightLine(event_batch.height)>> \o event_lines(m) \o <<BlankLine>>
    ELSE <<ErrorLine(event_batch.err)>>

(* ---- state ---- *)
VARIABLES pc, tokens, chainFound, events, filters, started, chan, closed,
          sent, out, result, call, ret

vars == <<pc, tokens, chainFound, events, filters, started, chan, closed,
          sent, out, result, call, ret>>

\* call and ret hold the argument and the result of a function applied on
\* its own (SpecFn); a run of the command leaves them alone.
fnvars == <<call, ret>>
cmdvars == <<tokens, chainFound, events, filters, started, chan, closed,
             sent, out, result>>

Tokens == {"NewBlock", "Tx", "TestFilter"}

Init ==
    /\ pc = "parse"
    /\ tokens \in SeqsUpTo(Tokens, MaxFilters)
    /\ chainFound \in BOOLEAN
    /\ events = <<>>
    /\ filters = <<>>
    /\ started = FALSE
    /\ chan = <<>>
    /\ closed = FALSE
    /\ sent = <<>>
    /\ out = <<>>
    /\ result = "running"
    /\ call = [fn |-> "none"]
    /\ ret = FALSE

\* the parser dropping the tokens from_str rejects
ParseArgs_SkipsInvalid ==
    /\ pc = "parse"
    /\ events' = [i \in DOMAIN SelectSeq(tokens, LAMBDA t : from_str(t).ok) |->
                    from_str(SelectSeq(tokens, LAMBDA t : from_str(t).ok)[i]).val]
    /\ pc' = "cmd"
    /\ UNCHANGED fnvars
    /\ UNCHANGED <<tokens, chainFound, filters, started, chan, closed, sent, out, result>>

\* clap: every --events token goes through EventFilter::from_str
ParseArgs ==
    /\ pc = "parse"
    /\ IF \A i \in DOMAIN tokens : from_str(tokens[i]).ok
       THEN /\ events' = [i \in DOMAIN tokens |-> from_str(tokens[i]).val]
            /\ pc' = "cmd"
            /\ result' = result
       ELSE /\ events' = events
            /\ pc' = "failed"
            /\ result' = "unrecognized event type"
    /\ UNCHANGED fnvars
    /\ UNCHANGED <<tokens, chainFound, filters, started, chan, closed, sent, out>>

\* cmd without the default, and cmd defaulting to Tx alone
cmd_events_NoDefault(self_events) == self_events

cmd_events_TxOnly(self_events) ==
    IF self_events = <<>> THEN <<Tx>> ELSE self_events

\* ListenCmd::cmd: the slice handed to listen
cmd_events(self_events) ==
    IF self_events = <<>> THEN <<Tx, NewBlock>> ELSE self_events

\* ListenCmd::cmd
Cmd ==
    /\ pc = "cmd"
    /\ IF ~chainFound
       THEN /\ pc' = "failed"
            /\ result' = "chain not found in configuration"
            /\ filters' = filters
       ELSE /\ filters' = cmd_events(events)
            /\ pc' = "listen"
            /\ result' = result
    /\ UNCHANGED fnvars
    /\ UNCHANGED <<tokens, chainFound, events, started, chan, closed, sent, out>>

\* listen: TokioRuntime::new()?
NewRuntime ==
    /\ pc = "listen"
    /\ \E ok \in BOOLEAN :
         IF ok THEN pc' = "monitor_new" /\ result' = result
         ELSE pc' = "failed" /\ result' = "runtime error"
    /\ UNCHANGED fnvars
    /\ UNCHANGED <<tokens, chainFound, events, filters, started, chan, closed, sent, out>>

\* subscribe: EventMonitor::new(..).map_err(..)?
MonitorNew ==
    /\ pc = "monitor_new"
    /\ \E ok \in BOOLEAN :
         IF ok THEN pc' = "monitor_subscribe" /\ result' = result
         ELSE pc' = "failed" /\ result' = "could not initialize event monitor"
    /\ UNCHANGED fnvars
    /\ UNCHANGED <<tokens, chainFound, events, filters, started, chan, closed, sent, out>>

\* subscribe going on after a failed event_monitor.subscribe()
MonitorSubscribe_ErrorNotReturned ==
    /\ pc = "monitor_subscribe"
    /\ \E ok \in BOOLEAN :
         IF ok THEN pc' = "spawn" /\ result' = result
         ELSE pc' = "spawn" /\ result' = "could not initialize subscriptions"
    /\ UNCHANGED fnvars
    /\ UNCHANGED <<tokens, chainFound, events, filters, started, chan, closed, sent, out>>

\* subscribe: event_monitor.subscribe().map_err(..)?
MonitorSubscribe ==
    /\ pc = "monitor_subscribe"
    /\ \E ok \in BOOLEAN :
         IF ok THEN pc' = "spawn" /\ result' = result
         ELSE pc' = "failed" /\ result' = "could not initialize subscriptions"
    /\ UNCHANGED fnvars
    /\ UNCHANGED <<tokens, chainFound, events, filters, started, chan, closed, sent, out>>

\* listen: info!("listening for queries"); thread::spawn(|| event_monitor.run())
Spawn ==
    /\ pc = "spawn"
    /\ out' = Append(out, ListeningLine)
    /\ started' = TRUE
    /\ pc' = "recv"
    /\ UNCHANGED fnvars
    /\ UNCHANGED <<tokens, chainFound, events, filters, chan, closed, sent, result>>

\* the monitor thread sends one batch on the channel
MonitorSend ==
    /\ started
    /\ ~closed
    /\ Len(sent) < MaxBatches
    /\ \E b \in Batches(MaxStreamEvents - EventCount(sent)) :
         /\ chan' = Append(chan, b)
         /\ sent' = Append(sent, b)
    /\ UNCHANGED fnvars
    /\ UNCHANGED <<pc, tokens, chainFound, events, filters, started, closed, out, result>>

\* the monitor thread ends and drops the sending end
MonitorClose ==
    /\ started
    /\ ~closed
    /\ closed' = TRUE
    /\ UNCHANGED fnvars
    /\ UNCHANGED <<pc, tokens, chainFound, events, filters, started, chan, sent, out, result>>

\* the loop remembering the heights it has reported and passing over a batch
\* that is not above them
Recv_SkipsStaleHeight ==
    /\ pc = "recv"
    /\ chan # <<>>
    /\ chan' = Tail(chan)
    /\ out' = (IF /\ Head(chan).ok
                  /\ \E i \in DOMAIN out :
                       out[i].kind = "height" /\ out[i].height >= Head(chan).height
               THEN out
               ELSE out \o loop_body(Head(chan), filters))
    /\ UNCHANGED fnvars
    /\ UNCHANGED <<pc, tokens, chainFound, events, filters, started, closed, sent, result>>

\* the loop leaving on an Err batch
Recv_ErrBreaks ==
    /\ pc = "recv"
    /\ chan # <<>>
    /\ chan' = Tail(chan)
    /\ out' = out \o loop_body(Head(chan), filters)
    /\ IF Head(chan).ok THEN pc' = pc /\ result' = result
       ELSE pc' = "done" /\ result' = "Ok"
    /\ UNCHANGED fnvars
    /\ UNCHANGED <<tokens, chainFound, events, filters, started, closed, sent>>

\* the loop taking the newest batch first
Recv_Lifo ==
    /\ pc = "recv"
    /\ chan # <<>>
    /\ chan' = SubSeq(chan, 1, Len(chan) - 1)
    /\ out' = out \o loop_body(chan[Len(chan)], filters)
    /\ UNCHANGED fnvars
    /\ UNCHANGED <<pc, tokens, chainFound, events, filters, started, closed, sent, result>>

\* the loop dropping the batch behind the one it receives
Recv_SkipsOne ==
    /\ pc = "recv"
    /\ chan # <<>>
    /\ chan' = (IF Len(chan) >= 2 THEN Tail(Tail(chan)) ELSE Tail(chan))
    /\ out' = out \o loop_body(Head(chan), filters)
    /\ UNCHANGED fnvars
    /\ UNCHANGED <<pc, tokens, chainFound, events, filters, started, closed, sent, result>>

\* while let Ok(event_batch) = rx.recv() { ... }: one iteration
Recv ==
    /\ pc = "recv"
    /\ chan # <<>>
    /\ chan' = Tail(chan)
    /\ out' = out \o loop_body(Head(chan), filters)
    /\ UNCHANGED fnvars
    /\ UNCHANGED <<pc, tokens, chainFound, events, filters, started, closed, sent, result>>

\* recv never reporting the disconnection, and recv returning on an empty
\* channel that is still open
RecvDisconnected_Blocks ==
    /\ pc = "recv"
    /\ chan = <<>>
    /\ closed
    /\ UNCHANGED vars

RecvDisconnected_OnEmpty ==
    /\ pc = "recv"
    /\ chan = <<>>
    /\ pc' = "done"
    /\ result' = "Ok"
    /\ UNCHANGED fnvars
    /\ UNCHANGED <<tokens, chainFound, events, filters, started, chan, closed, sent, out>>

\* rx.recv() returns Err: the loop ends and listen returns Ok(())
RecvDisconnected ==
    /\ pc = "recv"
    /\ chan = <<>>
    /\ closed
    /\ pc' = "done"
    /\ result' = "Ok"
    /\ UNCHANGED fnvars
    /\ UNCHANGED <<tokens, chainFound, events, filters, started, chan, closed, sent, out>>

Next ==
    \/ ParseArgs
    \/ Cmd
    \/ NewRuntime
    \/ MonitorNew
    \/ MonitorSubscribe
    \/ Spawn
    \/ MonitorSend
    \/ MonitorClose
    \/ Recv
    \/ RecvDisconnected

Spec == Init /\ [][Next]_vars

\* The command started without --events on a chain of the configuration.
InitLive == Init /\ tokens = <<>> /\ chainFound

\* The loop runs on the command's own (foreground) thread: whenever rx.recv()
\* can return, it does.  Nothing is assumed of the monitor thread.
SpecLive == InitLive /\ [][Next]_vars /\ WF_vars(Recv) /\ WF_vars(RecvDisconnected)

(* ---- the functions applied on their own ---- *)
FnTokens == {"NewBlock", "Tx", "TestFilter", "tx", "newblock", ""}
FilterSeqs == SeqsUpTo(EventFilter, MaxFilters + 1)
FnBatches ==
    {OkBatch(h, evs) : h \in Heights, evs \in SeqsUpTo(IbcEvent, MaxStreamEvents + 1)}
      \cup {ErrBatch(e) : e \in BatchErrors}

Calls ==
    {[fn |-> "matches", event |-> e] : e \in IbcEvent}
      \cup {[fn |-> "event_match", event |-> e, filters |-> fs] :
               e \in IbcEvent, fs \in FilterSeqs}
      \cup {[fn |-> "from_str", s |-> t] : t \in FnTokens}
      \cup {[fn |-> "fmt", filter |-> f] : f \in EventFilter}
      \cup {[fn |-> "loop_body", batch |-> b, filters |-> fs] :
               b \in FnBatches, fs \in FilterSeqs}

InitFn ==
    /\ pc = "fn"
    /\ call \in Calls
    /\ ret = FALSE
    /\ tokens = <<>>
    /\ chainFound = TRUE
    /\ events = <<>>
    /\ filters = <<>>
    /\ started = FALSE
    /\ chan = <<>>
    /\ closed = FALSE
    /\ sent = <<>>
    /\ out = <<>>
    /\ result = "running"

\* EventFilter::matches of every filter on one event
CallMatches ==
    /\ pc = "fn" /\ call.fn = "matches"
    /\ ret' = [f \in EventFilter |-> matches(f, call.event)]
    /\ pc' = "fn_done"
    /\ UNCHANGED <<call, cmdvars>>

CallEventMatch ==
    /\ pc = "fn" /\ call.fn = "event_match"
    /\ ret' = event_match(call.event, call.filters)
    /\ pc' = "fn_done"
    /\ UNCHANGED <<call, cmdvars>>

CallFromStr ==
    /\ pc = "fn" /\ call.fn = "from_str"
    /\ ret' = from_str(call.s)
    /\ pc' = "fn_done"
    /\ UNCHANGED <<call, cmdvars>>

CallFmt ==
    /\ pc = "fn" /\ call.fn = "fmt"
    /\ ret' = fmt(call.filter)
    /\ pc' = "fn_done"
    /\ UNCHANGED <<call, cmdvars>>

CallLoopBody ==
    /\ pc = "fn" /\ call.fn = "loop_body"
    /\ ret' = loop_body(call.batch, call.filters)
    /\ pc' = "fn_done"
    /\ UNCHANGED <<call, cmdvars>>

NextFn ==
    \/ CallMatches
    \/ CallEventMatch
    \/ CallFromStr
    \/ CallFmt
    \/ CallLoopBody

SpecFn == InitFn /\ [][NextFn]_vars

(* ---- auxiliary definitions for the properties ---- *)
NConsumed == Len(sent) - Len(chan)
Consumed == SubSeq(sent, 1, NConsumed)
InLoop == pc \in {"recv", "done"}

\* a step of the loop that receives the batch at the head of the channel
RecvStep == chan # <<>> /\ chan' = Tail(chan)
NewLines == SubSeq(out', Len(out) + 1, Len(out'))

Survivors(b, fs) == SelectSeq(b.events, LAMBDA e : event_match(e, fs))
HasMatch(b, fs) == b.ok /\ \E i \in DOMAIN b.events : event_match(b.events[i], fs)
OfKind(lines, kinds) == SelectSeq(lines, LAMBDA l : l.kind \in kinds)
Texts(lines) == [i \in DOMAIN lines |-> lines[i].text]

\* the events of the Ok batches of a sequence of batches, in order
RECURSIVE AllEvents(_)
AllEvents(bs) ==
    IF bs = <<>> THEN <<>> ELSE Head(bs).events \o AllEvents(Tail(bs))

ExpectedReport(b, fs) ==
    IF ~b.ok THEN <<ErrorLine(b.err)>>
    ELSE LET r == Survivors(b, fs)
         IN IF r = <<>> THEN <<>>
            ELSE <<HeightLine(b.height)>> \o [i \in DOMAIN r |-> EventLine(r[i])]
                   \o <<BlankLine>>

RECURSIVE ExpectedOut(_, _)
ExpectedOut(bs, fs) ==
    IF bs = <<>> THEN <<>>
    ELSE ExpectedReport(Head(bs), fs) \o ExpectedOut(Tail(bs), fs)

TypeOK ==
    /\ pc \in {"parse", "cmd", "listen", "monitor_new", "monitor_subscribe",
               "spawn", "recv", "done", "failed"}
    /\ Len(sent) <= MaxBatches

(* ---- C1 ---- *)
\* C1: an Err batch never ends the loop.  Every consumed Err batch has
\* yielded exactly one error line and no event line, every consumed Ok batch
\* with a matching event exactly one height line and its matching events
\* (also after an Err batch), and the loop is left only with every enqueued
\* batch consumed.
C1_ErrBatchDoesNotEndLoop ==
    InLoop =>
      /\ Len(OfKind(out, {"error"})) = Len(SelectSeq(Consumed, LAMBDA b : ~b.ok))
      /\ Len(OfKind(out, {"height"}))
           = Len(SelectSeq(Consumed, LAMBDA b : HasMatch(b, filters)))
      /\ Texts(OfKind(out, {"event"}))
           = SelectSeq(AllEvents(Consumed), LAMBDA e : event_match(e, filters))
      /\ \A i \in DOMAIN out :
           out[i].kind = "error" => out[i] = ErrorLine("delivery error")
      /\ (pc = "done" => Consumed = sent)

C1_Witness ==
    /\ Len(sent) = 2 /\ chan = <<>>
    /\ ~sent[1].ok
    /\ HasMatch(sent[2], filters)
    /\ Len(out) >= 3
    /\ out[2].kind = "error" /\ out[3].kind = "height"

(* ---- C3 ---- *)
\* C3: once listen has returned from the loop the channel is closed and
\* empty: the loop never returns while the monitor can still send or a
\* batch is still unconsumed.
C3_ReturnsOnlyOnExhaustion ==
    pc = "done" => (closed /\ chan = <<>> /\ result = "Ok")

C3_Witness == pc = "done" /\ Len(sent) = MaxBatches

(* ---- C4 ---- *)
\* C4: the events logged for a received Ok batch are exactly the events of
\* the batch for which event_match holds, in their original order.
C4_ReportsMatchingSubsequence ==
    [][(pc = "recv" /\ RecvStep /\ Head(chan).ok) =>
         /\ SubSeq(out', 1, Len(out)) = out
         /\ Texts(OfKind(NewLines, {"event"})) = Survivors(Head(chan), filters)
         /\ \A i \in DOMAIN NewLines :
              NewLines[i].kind = "event" =>
                 /\ NewLines[i].level = "info"
                 /\ event_match(NewLines[i].text, filters)]_vars

C4_Witness ==
    /\ NConsumed >= 1
    /\ sent[1].ok /\ sent[1].events = <<"SendPacket", "NewBlock">>
    /\ Len(filters) = 2
    /\ Len(out) >= 4
    /\ out[3] = EventLine("SendPacket") /\ out[4] = EventLine("NewBlock")

(* ---- C5 ---- *)
\* C5: receiving an Ok batch none of whose events matches (an empty batch
\* included) writes nothing and leaves the loop waiting for the next batch.
C5_NoOutputWithoutMatch ==
    [][(pc = "recv" /\ RecvStep /\ Head(chan).ok /\ ~HasMatch(Head(chan), filters))
         => (out' = out /\ pc' = "recv" /\ result' = "running")]_vars

C5_Witness ==
    /\ pc = "recv" /\ NConsumed = 2
    /\ sent[1].ok /\ sent[1].events = <<>>
    /\ sent[2].ok /\ sent[2].events # <<>> /\ ~HasMatch(sent[2], filters)
    /\ out = <<ListeningLine>>

(* ---- C6 ---- *)
\* C6: the channel is FIFO and the batch and error reports appear in the
\* order the batches were enqueued, whatever the heights are.
ReportHead(b) == IF b.ok THEN HeightLine(b.height) ELSE ErrorLine(b.err)
C6_ReportsInEnqueueOrder ==
    /\ chan = SubSeq(sent, NConsumed + 1, Len(sent))
    /\ InLoop =>
         LET rep == SelectSeq(Consumed, LAMBDA b : ~b.ok \/ HasMatch(b, filters))
         IN OfKind(out, {"height", "error"}) = [i \in DOMAIN rep |-> ReportHead(rep[i])]

C6_Witness ==
    /\ NConsumed = 2
    /\ sent[1].ok /\ sent[2].ok /\ sent[1].height > sent[2].height
    /\ OfKind(out, {"height"}) = <<HeightLine(sent[1].height), HeightLine(sent[2].height)>>

(* ---- C2 ---- *)
\* C2: once the monitor has dropped the sending end, the loop eventually
\* leaves rx.recv() and listen returns Ok(()).
C2_ReturnsAfterClose == closed ~> (pc = "done" /\ result = "Ok")

C2_Witness ==
    /\ pc = "done" /\ result = "Ok" /\ Len(sent) = 2
    /\ \E i, j \in DOMAIN sent : sent[i].ok /\ ~sent[j].ok

(* ---- C7 ---- *)
\* C7: every enqueued batch is eventually received, and the log is at any
\* time exactly the reports of the batches consumed so far, each once.
C7_ConsumedExactlyOnce ==
    /\ [](InLoop => out = <<ListeningLine>> \o ExpectedOut(Consumed, filters))
    /\ [](NConsumed >= 0 /\ NConsumed <= Len(sent))
    /\ \A n \in 1..MaxBatches : (Len(sent) >= n) ~> (NConsumed >= n)

C7_Witness ==
    /\ NConsumed = 2 /\ sent[1] = sent[2]
    /\ HasMatch(sent[1], filters)
    /\ Len(OfKind(out, {"height"})) = 2

(* ---- C8 ---- *)
\* C8: EventFilter::matches yields a boolean for every filter and event, and
\* exactly one of these holds: the event is NewBlock, matched by NewBlock and
\* not by Tx; it is ChainError, matched by neither; it is any other variant,
\* matched by Tx and not by NewBlock.
C8_MatchesPartitions ==
    (pc = "fn_done" /\ call.fn = "matches") =>
      LET e == call.event
          a == e = "NewBlock" /\ ret[NewBlock] /\ ~ret[Tx]
          b == e = "ChainError" /\ ~ret[NewBlock] /\ ~ret[Tx]
          c == e \notin {"NewBlock", "ChainError"} /\ ~ret[NewBlock] /\ ret[Tx]
      IN /\ \A f \in EventFilter : ret[f] \in BOOLEAN
         /\ Cardinality({x \in {<<1, a>>, <<2, b>>, <<3, c>>} : x[2]}) = 1

C8_Witness ==
    /\ pc = "fn_done" /\ call.fn = "matches" /\ call.event = "ChainError"
    /\ ~ret[NewBlock] /\ ~ret[Tx]
(* ---- C9 ---- *)
BothFilters == <<NewBlock, Tx>>

\* C9 as stated: on every event, event_match with the empty filter sequence
\* gives what it gives with {NewBlock, Tx}, and a session without filters
\* reports what a session with {NewBlock, Tx} reports.
C9_Original ==
    InLoop =>
      /\ \A i \in DOMAIN AllEvents(sent) :
           event_match(AllEvents(sent)[i], <<>>)
             = event_match(AllEvents(sent)[i], BothFilters)
      /\ (events = <<>> =>
            out = <<ListeningLine>> \o ExpectedOut(Consumed, BothFilters))

\* C9 (amended): event_match is false of every event on the empty sequence;
\* the default is taken by cmd, so that a session started without filters,
\* like one started with NewBlock and Tx in either order, evaluates every
\* event and reports every batch stream as the filter set {NewBlock, Tx} does.
C9_DefaultResolvedByCmd ==
    (InLoop /\ events \in {<<>>, <<NewBlock, Tx>>, <<Tx, NewBlock>>}) =>
      /\ filters # <<>>
      /\ \A i \in DOMAIN AllEvents(sent) :
           /\ ~event_match(AllEvents(sent)[i], <<>>)
           /\ event_match(AllEvents(sent)[i], filters)
                = event_match(AllEvents(sent)[i], BothFilters)
      /\ out = <<ListeningLine>> \o ExpectedOut(Consumed, BothFilters)

C9_Witness ==
    /\ events = <<>> /\ tokens = <<>> /\ NConsumed = 2
    /\ sent[1].ok /\ sent[1].events = <<"NewBlock">>
    /\ sent[2].ok /\ sent[2].events = <<"SendPacket">>
    /\ Texts(OfKind(out, {"event"})) = <<"NewBlock", "SendPacket">>

C11_ParseDisplayRoundTrip ==
    /\ (pc = "fn_done" /\ call.fn = "from_str" /\ call.s \in {"NewBlock", "Tx"}) =>
         (ret.ok /\ ret.val \in EventFilter /\ fmt(ret.val) = call.s)
    /\ (pc = "fn_done" /\ call.fn = "fmt") =>
         /\ ret \in {"NewBlock", "Tx"}
         /\ from_str(ret).ok
         /\ from_str(ret).val = call.filter

C11_Witness ==
    /\ pc = "fn_done" /\ call.fn = "from_str" /\ call.s = "Tx"
    /\ ret.ok /\ ret.val = Tx /\ fmt(ret.val) = "Tx"

(* ---- C12 ---- *)
\* C12: from_str of any token other than exactly "NewBlock" or "Tx" fails,
\* the error carries the token, and no filter is produced.
C12_OtherTokensRejected ==
    (pc = "fn_done" /\ call.fn = "from_str" /\ call.s \notin {"NewBlock", "Tx"}) =>
      (~ret.ok /\ ret.err = call.s /\ ret.val \notin EventFilter)

C12_Witness ==
    /\ pc = "fn_done" /\ call.fn = "from_str" /\ call.s = "tx"
    /\ ~ret.ok /\ ret.err = "tx"

(* ---- C13 ---- *)
SetupErrors ==
    {"could not initialize event monitor", "could not initialize subscriptions"}

\* C13: when EventMonitor::new or the subscribe step fails, listen has
\* returned that error and nothing follows: the monitor thread is not
\* started, no batch is sent or received and nothing is logged.  The thread
\* is started only from the point behind both setup steps, which is reached
\* only by a subscribe step that succeeded after a construction that
\* succeeded.
C13_SetupFailureStopsListen ==
    /\ [](result \in SetupErrors =>
            /\ pc = "failed" /\ ~started
            /\ chan = <<>> /\ sent = <<>> /\ out = <<>>)
    /\ [](started => pc \in {"recv", "done"})
    /\ [][pc # "failed"]_vars
    /\ [][(~started /\ started') => (pc = "spawn" /\ result = "running")]_vars
    /\ [][(pc # "spawn" /\ pc' = "spawn") =>
            (pc = "monitor_subscribe" /\ result' = "running")]_vars
    /\ [][(pc # "monitor_subscribe" /\ pc' = "monitor_subscribe") =>
            (pc = "monitor_new" /\ result' = "running")]_vars

C13_Witness ==
    /\ pc = "failed" /\ result = "could not initialize subscriptions"
    /\ ~started /\ sent = <<>> /\ out = <<>>

(* ---- C14 ---- *)
InvalidInput ==
    ~chainFound \/ \E i \in DOMAIN tokens : ~from_str(tokens[i]).ok

\* C14: a command given a token from_str rejects, or a chain the
\* configuration does not have, never gets as far as listen: no event
\* monitor is constructed, no subscribe is issued, the loop is not reached,
\* and the command ends with the parse or the lookup error.
C14_InvalidInputStopsBeforeSetup ==
    InvalidInput =>
      /\ pc \in {"parse", "cmd", "failed"}
      /\ ~started /\ chan = <<>> /\ sent = <<>> /\ out = <<>>
      /\ filters = <<>>
      /\ (pc = "failed" =>
            result \in {"unrecognized event type", "chain not found in configuration"})
      /\ (pc # "failed" => result = "running")

C14_Witness ==
    /\ pc = "failed" /\ result = "unrecognized event type"
    /\ tokens = <<"TestFilter">> /\ chainFound

(* ---- C15 ---- *)
\* C15: the filters are set by cmd and never change afterwards, and what
\* the loop logs for a received batch is a function of that batch and the
\* filters alone: the same lines whatever was received, logged or is still
\* queued, and the step changes nothing but the channel and the log.
C15_LoopIsStateless ==
    /\ [][filters' # filters => pc = "cmd"]_vars
    /\ [][(pc = "recv" /\ RecvStep) =>
            /\ out' = out \o ExpectedReport(Head(chan), filters)
            /\ UNCHANGED <<pc, filters, events, closed, sent, result>>]_vars

C15_Witness ==
    /\ NConsumed = 2
    /\ sent[1].ok /\ sent[2].ok
    /\ sent[1].height = sent[2].height
    /\ sent[1].events = <<"NewBlock">> /\ sent[2].events = <<"NewBlock">>
    /\ out = <<ListeningLine>> \o ExpectedReport(sent[1], filters)
               \o ExpectedReport(sent[1], filters)
    /\ Len(out) = 7

(* ---- C16 ---- *)
\* C16: a reported batch is logged as one line with its height, one line per
\* surviving event and one blank line, in that order and as one block; an
\* Err batch is logged as one line, the only kind written at error level.
C16_ReportShape ==
    /\ [](\A i \in DOMAIN out :
            /\ (out[i].level = "error") <=> (out[i].kind = "error")
            /\ out[i].kind = "listening" => i = 1
            /\ out[i].kind = "height" =>
                 (i < Len(out) /\ out[i + 1].kind = "event")
            /\ out[i].kind = "event" =>
                 /\ i > 1 /\ out[i - 1].kind \in {"height", "event"}
                 /\ i < Len(out) /\ out[i + 1].kind \in {"event", "blank"}
            /\ out[i].kind = "blank" => (i > 1 /\ out[i - 1].kind = "event"))
    /\ [][(pc = "recv" /\ RecvStep) =>
            LET b == Head(chan)
                n == Len(Survivors(b, filters))
            IN /\ SubSeq(out', 1, Len(out)) = out
               /\ ~b.ok => NewLines = <<ErrorLine(b.err)>>
               /\ (b.ok /\ n = 0) => NewLines = <<>>
               /\ (b.ok /\ n > 0) =>
                    /\ Len(NewLines) = n + 2
                    /\ NewLines[1] = HeightLine(b.height)
                    /\ NewLines[n + 2] = BlankLine
                    /\ \A k \in 2..(n + 1) : NewLines[k].kind = "event"]_vars

C16_Witness ==
    /\ NConsumed = 2
    /\ sent[1].ok /\ Len(sent[1].events) = 2 /\ ~sent[2].ok
    /\ Len(out) = 5
    /\ out[2].kind = "height" /\ out[3].kind = "event"
    /\ out[4] = BlankLine /\ out[5].level = "error"

(* ---- C17 ---- *)
Range(s) == {s[i] : i \in DOMAIN s}

\* C17: on a non-empty filter sequence event_match is true exactly when some
\* member matches the event, and every sequence with the same members, in
\* any order and with any repetitions, gives the same result.
C17_FilterSequenceIsASet ==
    (pc = "fn_done" /\ call.fn = "event_match" /\ call.filters # <<>>) =>
      /\ ret = (\E f \in Range(call.filters) : matches(f, call.event))
      /\ \A fs \in FilterSeqs :
           Range(fs) = Range(call.filters) => event_match(call.event, fs) = ret

C17_Witness ==
    /\ pc = "fn_done" /\ call.fn = "event_match"
    /\ call.filters = <<NewBlock, Tx>> /\ call.event = "SendPacket"
    /\ ret = TRUE

(* ---- C18 ---- *)
\* C18: no ChainError event is ever logged, whatever the filters and the
\* batches received before, and receiving an Ok batch of ChainError events
\* only logs nothing.
C18_ChainErrorNeverReported ==
    /\ [](\A i \in DOMAIN out :
            ~(out[i].kind = "event" /\ out[i].text = "ChainError"))
    /\ [][(/\ pc = "recv" /\ RecvStep /\ Head(chan).ok
            /\ \A k \in DOMAIN Head(chan).events : Head(chan).events[k] = "ChainError")
            => out' = out]_vars

C18_Witness ==
    /\ pc = "recv" /\ NConsumed = 1
    /\ sent[1].ok /\ sent[1].events = <<"ChainError", "ChainError">>
    /\ out = <<ListeningLine>>

(* ---- C19 ---- *)
ReportedEvents(lines) == Texts(OfKind(lines, {"event"}))

\* C19: for an Ok batch the events logged under [NewBlock] and those logged
\* under [Tx] have nothing in common, the events logged under [Tx, NewBlock]
\* are the two merged in the order of the batch, and the batch is logged
\* under [Tx, NewBlock] exactly when it is under [NewBlock] or under [Tx].
C19_DefaultIsDisjointUnion ==
    (/\ pc = "fn_done" /\ call.fn = "loop_body"
     /\ call.batch.ok /\ call.filters = <<Tx, NewBlock>>) =>
      LET b == call.batch
          nb == ReportedEvents(loop_body(b, <<NewBlock>>))
          tx == ReportedEvents(loop_body(b, <<Tx>>))
          both == ReportedEvents(ret)
      IN /\ Range(nb) \cap Range(tx) = {}
         /\ both = SelectSeq(b.events, LAMBDA e : e \in Range(nb) \cup Range(tx))
         /\ nb = SelectSeq(both, LAMBDA e : e \in Range(nb))
         /\ tx = SelectSeq(both, LAMBDA e : e \in Range(tx))
         /\ Len(both) = Len(nb) + Len(tx)
         /\ (ret # <<>>) <=>
              (loop_body(b, <<NewBlock>>) # <<>> \/ loop_body(b, <<Tx>>) # <<>>)

C19_Witness ==
    /\ pc = "fn_done" /\ call.fn = "loop_body"
    /\ call.filters = <<Tx, NewBlock>>
    /\ call.batch.ok /\ call.batch.events = <<"SendPacket", "NewBlock", "UpdateClient">>
    /\ ReportedEvents(ret) = <<"SendPacket", "NewBlock", "UpdateClient">>
====
